---- MODULE Spec2Model ----
(***************************************************************************)
(* Model of the Ledger layout engine of casper-deploy-generator            *)
(* (src/src/ledger.rs), of the batch loop of src/src/main.rs (Spec) and of *)
(* the redelegate sample builders of src/src/test_data (SpecGen).          *)
(*                                                                         *)
(* Rust `String`s are TLA+ strings: `chars().count()` is Len, `format!`    *)
(* concatenation is \o and the i-th char of `chars()` is SubSeq(s, i, i).  *)
(* A `Deploy` is represented by what the two external collaborators        *)
(* return for it: `to_bytes()` (field bytes) and `parser::parse_deploy`    *)
(* (field elements).                                                       *)
(***************************************************************************)
EXTENDS Integers, Sequences, FiniteSets, TLC

VARIABLES
    samples,        \* main: the chained sample iterator, in emission order
    data,           \* main: the ZondaxRepr records collected so far
    pc,             \* position of the single thread of control
    index,          \* deploy_to_json: parameter `index`
    name,           \* deploy_to_json: sample label
    valid,          \* deploy_to_json: sample validity flag
    blob,           \* deploy_to_json: hex of the deploy bytes
    ledger,         \* Ledger.ledger_elements of the current deploy
    mode,           \* which LimitedLedgerView method runs: "regular" / "expert"
    pages,          \* LedgerView::from_ledger: pages collected so far
    element,        \* LedgerPageView::from_element: parameter `element`
    pos,            \* from_element: number of chars of element.value consumed
    values,         \* from_element: local `values`
    curr_value,     \* from_element: local `curr_value`
    output,         \* deploy_to_json: local `output`
    output_expert,  \* deploy_to_json: local `output_expert`
    rng,            \* state of the random generator passed to the sample builders
    valid_samples,  \* redelegate_samples: local `valid_samples`
    invalid_samples, \* redelegate_samples: local `invalid_samples`
    call,           \* redelegate_samples: which construct_samples call runs (1, 2)
    result,         \* redelegate_samples: local `samples`
    session_samples, \* construct_samples: parameter `session_samples`
    payment_samples, \* construct_samples: parameter `payment_samples`
    si,             \* construct_samples: 1-based position of the outer loop
    pi,             \* construct_samples: 1-based position of the inner loop
    ttls,           \* construct_samples: local `ttls`
    deps_count,     \* construct_samples: local `deps_count`
    key_count,      \* construct_samples: local `key_count`
    built,          \* construct_samples: local `samples`
    sample,         \* make_deploy_sample: local `sample`
    secondary_keys  \* make_deploy_sample: keys the signing loop has still to use

(* The state of the layout engine and of main's batch loop.                *)
layout_vars == <<samples, data, index, name, valid, blob, ledger, mode, pages,
                 element, pos, values, curr_value, output, output_expert>>

(* The state of the sample builders of test_data.                          *)
gen_vars == <<rng, valid_samples, invalid_samples, call, result, session_samples,
              payment_samples, si, pi, ttls, deps_count, key_count, built, sample,
              secondary_keys>>

vars == <<pc, layout_vars, gen_vars>>

-----------------------------------------------------------------------------
(* Program constants (src/src/ledger.rs:10-15).                            *)

LEDGER_VIEW_NAME_CHAR_COUNT == 11
LEDGER_VIEW_TOP_ROW_CHAR_COUNT == 17
LEDGER_VIEW_BOTTOM_CHAR_COUNT == 17

(* Bounds of the explored inputs.                                          *)

MaxValueLen == 70      \* longest generated element value
MaxElements == 3       \* longest generated multi-element list
MaxSamples == 2        \* longest generated multi-sample batch
MaxSeed == 7           \* largest initial state of the random generator

-----------------------------------------------------------------------------
(* Display of an unsigned integer ("{}" on usize): decimal digits.         *)

Digits == <<"0", "1", "2", "3", "4", "5", "6", "7", "8", "9">>

RECURSIVE DecStr(_)
DecStr(n) ==
    IF n < 10 THEN Digits[n + 1]
    ELSE DecStr(n \div 10) \o Digits[(n % 10) + 1]

(* hex::encode: two lowercase hex digits per byte, no separator.           *)

HexDigits == <<"0", "1", "2", "3", "4", "5", "6", "7",
               "8", "9", "a", "b", "c", "d", "e", "f">>

RECURSIVE HexEncode(_)
HexEncode(bytes) ==
    IF bytes = <<>> THEN ""
    ELSE HexDigits[(Head(bytes) \div 16) + 1] \o HexDigits[(Head(bytes) % 16) + 1]
         \o HexEncode(Tail(bytes))

(* The i-th char (1-based) of s.chars().                                   *)
CharAt(s, i) == SubSeq(s, i, i)

-----------------------------------------------------------------------------
(* LedgerValue                                                             *)

LedgerValue_default == [top |-> "", bottom |-> ""]

(* Faulty variant: the top row accepts an 18th character.                  *)
add_char_TopOffByOne(self, c) ==
    IF Len(self.top) <= LEDGER_VIEW_TOP_ROW_CHAR_COUNT
    THEN [value |-> [self EXCEPT !.top = self.top \o c], added |-> TRUE]
    ELSE IF Len(self.bottom) < LEDGER_VIEW_BOTTOM_CHAR_COUNT
    THEN [value |-> [self EXCEPT !.bottom = self.bottom \o c], added |-> TRUE]
    ELSE [value |-> self, added |-> FALSE]

(* Faulty variant: the bottom row is full at 16 characters.                *)
add_char_BottomShort(self, c) ==
    IF Len(self.top) < LEDGER_VIEW_TOP_ROW_CHAR_COUNT
    THEN [value |-> [self EXCEPT !.top = self.top \o c], added |-> TRUE]
    ELSE IF Len(self.bottom) < LEDGER_VIEW_BOTTOM_CHAR_COUNT - 1
    THEN [value |-> [self EXCEPT !.bottom = self.bottom \o c], added |-> TRUE]
    ELSE [value |-> self, added |-> FALSE]

(* Faulty variant: the bottom row is filled before the top row.            *)
add_char_BottomFirst(self, c) ==
    IF Len(self.bottom) < LEDGER_VIEW_BOTTOM_CHAR_COUNT
    THEN [value |-> [self EXCEPT !.bottom = self.bottom \o c], added |-> TRUE]
    ELSE IF Len(self.top) < LEDGER_VIEW_TOP_ROW_CHAR_COUNT
    THEN [value |-> [self EXCEPT !.top = self.top \o c], added |-> TRUE]
    ELSE [value |-> self, added |-> FALSE]

(* add_char(&mut self, c) -> bool: the new self and the returned flag.     *)
add_char(self, c) ==
    IF Len(self.top) < LEDGER_VIEW_TOP_ROW_CHAR_COUNT
    THEN [value |-> [self EXCEPT !.top = self.top \o c], added |-> TRUE]
    ELSE IF Len(self.bottom) < LEDGER_VIEW_BOTTOM_CHAR_COUNT
    THEN [value |-> [self EXCEPT !.bottom = self.bottom \o c], added |-> TRUE]
    ELSE [value |-> self, added |-> FALSE]

(* Faulty variant: the rows are concatenated bottom first.                 *)
into_str_Swapped(self) == self.bottom \o self.top

(* into_str and Display for LedgerValue: both rows, no separator.          *)
into_str(self) == self.top \o self.bottom

-----------------------------------------------------------------------------
(* LedgerPageView                                                          *)

(* Faulty variant: a name of exactly 11 characters is rejected.            *)
NameTooLong_OffByOne(e) == Len(e.name) >= LEDGER_VIEW_NAME_CHAR_COUNT

(* The guard of the panic at the head of from_element.                     *)
NameTooLong(e) == Len(e.name) > LEDGER_VIEW_NAME_CHAR_COUNT

(* Faulty variant: the char that was refused is not added to the new unit. *)
NewValueWith_DropChar(c) == [value |-> LedgerValue_default, added |-> TRUE]

(* `curr_value = LedgerValue::default(); assert!(curr_value.add_char(c))`  *)
NewValueWith(c) == add_char(LedgerValue_default, c)

(* The struct literal that from_element returns.                           *)
MakePage(e, vals) == [name |-> e.name, expert |-> e.expert, values |-> vals]

(* Faulty variant: the screen number starts at 0.                          *)
PageLine_ZeroBased(page, i) ==
    page.name \o " [" \o DecStr(i - 1) \o "/" \o DecStr(Len(page.values)) \o "] : "
        \o into_str(page.values[i])

(* One line of a page that spans several screens (i is 1-based).           *)
PageLine(page, i) ==
    page.name \o " [" \o DecStr(i) \o "/" \o DecStr(Len(page.values)) \o "] : "
        \o into_str(page.values[i])

(* LedgerPageView::to_string                                               *)
PageToString(page) ==
    IF Len(page.values) = 1
    THEN << page.name \o " : " \o into_str(page.values[1]) >>
    ELSE [i \in 1..Len(page.values) |-> PageLine(page, i)]

-----------------------------------------------------------------------------
(* LedgerView                                                              *)

(* Faulty variant: nothing is filtered.                                    *)
Shown_IgnoreFlag(page, expert) == TRUE

(* The filter closure of LedgerView::to_string.                            *)
Shown(page, expert) == IF ~page.expert THEN TRUE ELSE expert

(* The lines of one page, each prefixed with its enumerate() index.        *)
Prefixed(idx, page) ==
    LET page_strs == PageToString(page)
    IN [j \in 1..Len(page_strs) |-> DecStr(idx) \o " | " \o page_strs[j]]

(* output.extend(..) for the filtered pages k, k+1, ... (k is 1-based).    *)
RECURSIVE ExtendFrom(_, _)
ExtendFrom(filtered, k) ==
    IF k > Len(filtered) THEN <<>>
    ELSE Prefixed(k - 1, filtered[k]) \o ExtendFrom(filtered, k + 1)

(* Faulty variant: enumerate() before filter(), so the index of a line is  *)
(* the position of its element in the unfiltered list.                     *)
RECURSIVE ExtendUnfiltered(_, _, _)
ExtendUnfiltered(ps, k, expert) ==
    IF k > Len(ps) THEN <<>>
    ELSE (IF Shown(ps[k], expert) THEN Prefixed(k - 1, ps[k]) ELSE <<>>)
         \o ExtendUnfiltered(ps, k + 1, expert)

ViewToString_EnumerateBeforeFilter(ps, expert) == ExtendUnfiltered(ps, 1, expert)

(* LedgerView::to_string(expert)                                           *)
ViewToString(ps, expert) ==
    ExtendFrom(SelectSeq(ps, LAMBDA p : Shown(p, expert)), 1)

-----------------------------------------------------------------------------
(* ZondaxRepr built by deploy_to_json.                                     *)

(* Faulty variant: valid_expert does not follow the sample.                *)
MakeRepr_ExpertAlwaysValid(idx, nm, vl, bl, out, out_expert) ==
    [index |-> idx, name |-> nm, valid_regular |-> vl, valid_expert |-> TRUE,
     testnet |-> TRUE, blob |-> bl, output |-> out, output_expert |-> out_expert]

MakeRepr(idx, nm, vl, bl, out, out_expert) ==
    [index |-> idx, name |-> nm, valid_regular |-> vl, valid_expert |-> vl,
     testnet |-> TRUE, blob |-> bl, output |-> out, output_expert |-> out_expert]

-----------------------------------------------------------------------------
(* Inputs.  The element extractor and the sample generators are external;  *)
(* the model draws their results from the sets below.                      *)

(* The string of length n that cycles through the chars of pattern.       *)
RECURSIVE Cycle(_, _)
Cycle(pattern, n) ==
    IF n = 0 THEN ""
    ELSE Cycle(pattern, n - 1) \o CharAt(pattern, ((n - 1) % Len(pattern)) + 1)

Patterns == {"01", "abcdefg"}

AllValues == {Cycle(p, n) : p \in Patterns, n \in 0..MaxValueLen}

FewValues == {"", "999", "CSPR 24.5", Cycle("01", 34), Cycle("01", 36)}

(* Names of 0, 2, 6, 11 and 12 characters.                                 *)
Names == {"", "To", "Amount", "Entry-point", "Entry-points"}

Element(n, v, x) == [name |-> n, value |-> v, expert |-> x]

AllElements ==
    {Element("To", v, x) : v \in AllValues, x \in BOOLEAN}
    \cup {Element(n, v, x) : n \in Names, v \in FewValues, x \in BOOLEAN}

FewElements ==
    { Element("To", Cycle("01", 36), FALSE),
      Element("Amount", "CSPR 24.5", FALSE),
      Element("Id", "999", TRUE),
      Element("Entry-point", Cycle("abcdefg", 69), TRUE),
      Element("Entry-points", "", TRUE) }

SeqsUpTo(S, n) == UNION {[1..k -> S] : k \in 0..n}

ElementLists ==
    {<<e>> : e \in AllElements} \cup SeqsUpTo(FewElements, MaxElements)

Sample(l, els, v) == [label |-> l, deploy |-> [bytes |-> <<Len(els), 171>>, elements |-> els], valid |-> v]

AllSamples ==
    {Sample("transfer", els, v) : els \in ElementLists, v \in BOOLEAN}

FewSamples ==
    { Sample("delegate", <<Element("Amount", "CSPR 24.5", FALSE)>>, TRUE),
      Sample("undelegate", <<Element("Id", "999", TRUE)>>, FALSE),
      Sample("generic", <<>>, FALSE) }

Batches ==
    {<<s>> : s \in AllSamples} \cup SeqsUpTo(FewSamples, MaxSamples)

-----------------------------------------------------------------------------
(* Faulty variant: the elements are filtered by the mode of the view       *)
(* before their pages are built.                                           *)
into_ledger_elements_FilterFirst(els) ==
    SelectSeq(els, LAMBDA e : (~e.expert) \/ mode = "expert")

(* Ledger::into_ledger_elements: every element, in order; from_ledger maps *)
(* from_element over all of them.                                          *)
into_ledger_elements(els) == els

(* The sample builders before redelegate_samples is entered.               *)
GenIdle ==
    /\ rng = 0
    /\ valid_samples = <<>>
    /\ invalid_samples = <<>>
    /\ call = 0
    /\ result = <<>>
    /\ session_samples = <<>>
    /\ payment_samples = <<>>
    /\ si = 0
    /\ pi = 0
    /\ ttls = <<>>
    /\ deps_count = <<>>
    /\ key_count = <<>>
    /\ built = <<>>
    /\ sample = [label |-> "", item |-> <<>>, valid |-> FALSE]
    /\ secondary_keys = <<>>

Init ==
    /\ samples \in Batches
    /\ data = <<>>
    /\ pc = "main"
    /\ index = 0
    /\ name = ""
    /\ valid = FALSE
    /\ blob = ""
    /\ ledger = <<>>
    /\ mode = "regular"
    /\ pages = <<>>
    /\ element = Element("", "", FALSE)
    /\ pos = 0
    /\ values = <<>>
    /\ curr_value = LedgerValue_default
    /\ output = <<>>
    /\ output_expert = <<>>
    /\ GenIdle

(* main: the next (id, sample) of enumerate() enters deploy_to_json, which *)
(* destructures it, encodes the blob, parses the deploy and starts         *)
(* ledger_view.regular().                                                  *)
DeployToJson_Begin ==
    /\ pc = "main"
    /\ Len(data) < Len(samples)
    /\ LET sample_deploy == samples[Len(data) + 1]
       IN /\ index' = Len(data)
          /\ name' = sample_deploy.label
          /\ valid' = sample_deploy.valid
          /\ blob' = HexEncode(sample_deploy.deploy.bytes)
          /\ ledger' = sample_deploy.deploy.elements
    /\ mode' = "regular"
    /\ pages' = <<>>
    /\ output' = <<>>
    /\ output_expert' = <<>>
    /\ pc' = "from_ledger"
    /\ UNCHANGED <<samples, data, element, pos, values, curr_value>>
    /\ UNCHANGED gen_vars

(* from_ledger's map: from_element is entered for the next element and     *)
(* passes the name check.                                                  *)
FromElement_Begin ==
    /\ pc = "from_ledger"
    /\ Len(pages) < Len(into_ledger_elements(ledger))
    /\ ~NameTooLong(into_ledger_elements(ledger)[Len(pages) + 1])
    /\ element' = into_ledger_elements(ledger)[Len(pages) + 1]
    /\ values' = <<>>
    /\ curr_value' = LedgerValue_default
    /\ pos' = 0
    /\ pc' = "chars"
    /\ UNCHANGED <<samples, data, index, name, valid, blob, ledger, mode, pages,
                   output, output_expert>>
    /\ UNCHANGED gen_vars

(* from_element panics on a name that is too long; nothing catches it.     *)
FromElement_Panic ==
    /\ pc = "from_ledger"
    /\ Len(pages) < Len(into_ledger_elements(ledger))
    /\ NameTooLong(into_ledger_elements(ledger)[Len(pages) + 1])
    /\ element' = into_ledger_elements(ledger)[Len(pages) + 1]
    /\ pc' = "panicked"
    /\ UNCHANGED <<samples, data, index, name, valid, blob, ledger, mode, pages,
                   pos, values, curr_value, output, output_expert>>
    /\ UNCHANGED gen_vars

(* One iteration of `for c in element.value.chars()`.                      *)
FromElement_Char ==
    /\ pc = "chars"
    /\ pos < Len(element.value)
    /\ LET c == CharAt(element.value, pos + 1)
           r == add_char(curr_value, c)
       IN IF r.added
          THEN /\ curr_value' = r.value
               /\ values' = values
               /\ pc' = pc
          ELSE /\ values' = Append(values, curr_value)
               /\ curr_value' = NewValueWith(c).value
               /\ pc' = IF NewValueWith(c).added THEN pc ELSE "panicked"
    /\ pos' = pos + 1
    /\ UNCHANGED <<samples, data, index, name, valid, blob, ledger, mode, pages,
                   element, output, output_expert>>
    /\ UNCHANGED gen_vars

(* After the loop: push the last value, return the page to from_ledger.    *)
FromElement_End ==
    /\ pc = "chars"
    /\ pos = Len(element.value)
    /\ values' = Append(values, curr_value)
    /\ pages' = Append(pages, MakePage(element, values'))
    /\ pc' = "from_ledger"
    /\ UNCHANGED <<samples, data, index, name, valid, blob, ledger, mode,
                   element, pos, curr_value, output, output_expert>>
    /\ UNCHANGED gen_vars

(* ledger_view.regular(): all pages are built, to_string(false) gives      *)
(* `output`; ledger_view.expert() then rebuilds the pages from a clone.    *)
View_Regular ==
    /\ pc = "from_ledger"
    /\ Len(pages) = Len(into_ledger_elements(ledger))
    /\ mode = "regular"
    /\ output' = ViewToString(pages, FALSE)
    /\ mode' = "expert"
    /\ pages' = <<>>
    /\ UNCHANGED <<samples, data, pc, index, name, valid, blob, ledger,
                   element, pos, values, curr_value, output_expert>>
    /\ UNCHANGED gen_vars

(* ledger_view.expert(): to_string(true) gives `output_expert`, and        *)
(* deploy_to_json returns the record, which main's collect() stores.       *)
View_Expert ==
    /\ pc = "from_ledger"
    /\ Len(pages) = Len(into_ledger_elements(ledger))
    /\ mode = "expert"
    /\ output_expert' = ViewToString(pages, TRUE)
    /\ data' = Append(data, MakeRepr(index, name, valid, blob, output, output_expert'))
    /\ pc' = "main"
    /\ UNCHANGED <<samples, index, name, valid, blob, ledger, mode, pages,
                   element, pos, values, curr_value, output>>
    /\ UNCHANGED gen_vars

(* main: the iterator is exhausted; the batch is printed.                  *)
Main_Print ==
    /\ pc = "main"
    /\ Len(data) = Len(samples)
    /\ pc' = "done"
    /\ UNCHANGED <<samples, data, index, name, valid, blob, ledger, mode, pages,
                   element, pos, values, curr_value, output, output_expert>>
    /\ UNCHANGED gen_vars

Next ==
    \/ DeployToJson_Begin
    \/ FromElement_Begin
    \/ FromElement_Panic
    \/ FromElement_Char
    \/ FromElement_End
    \/ View_Regular
    \/ View_Expert
    \/ Main_Print

Spec == Init /\ [][Next]_vars

-----------------------------------------------------------------------------
(* The sample builders: src/src/test_data.rs and                           *)
(* src/src/test_data/auction/redelegate.rs.                                *)

(* From the chainspec (test_data.rs:23-37); TimeDiff values in seconds.    *)
MIN_TTL == 60
MAX_TTL == 60 * 60 * 24
TTL_HOUR == 60 * 60
MIN_DEPS_COUNT == 0
MAX_DEPS_COUNT == 10
MIN_APPROVALS_COUNT == 1
MAX_APPROVALS_COUNT == 10

ENTRY_POINT_NAME == "redelegate"

(* [b; n]: an array of n copies of b.                                      *)
Repeat(b, n) == [i \in 1..n |-> b]

(* The k low little-endian bytes of n.                                     *)
RECURSIVE LeBytes(_, _)
LeBytes(n, k) == IF k = 0 THEN <<>> ELSE <<n % 256>> \o LeBytes(n \div 256, k - 1)

(* U512 as its 64 little-endian bytes.                                     *)
U512_from(n) == [type |-> "U512", bytes |-> LeBytes(n, 64)]

U512_MAX == [type |-> "U512", bytes |-> Repeat(255, 64)]

U32_from(n) == [type |-> "U32", bytes |-> LeBytes(n, 4)]

PublicKey_ed25519_from_bytes(bytes) ==
    [type |-> "PublicKey", alg |-> "ed25519", bytes |-> bytes]

SecretKey_from_bytes(alg, bytes) == [alg |-> alg, bytes |-> bytes]

(* RuntimeArgs: the named arguments in insertion order.                    *)
RuntimeArgs_new == <<>>

insert(ra, arg_name, cl_value) == Append(ra, [name |-> arg_name, cl_value |-> cl_value])

(* Option: None and Some(x).                                               *)
None == <<>>

Some(x) == <<x>>

is_some(o) == o # None

(* RuntimeArgs::get: the value of the first argument of that name.         *)
get(ra, arg_name) ==
    IF \E i \in 1..Len(ra) : ra[i].name = arg_name
    THEN Some(ra[CHOOSE i \in 1..Len(ra) :
                     /\ ra[i].name = arg_name
                     /\ \A j \in 1..(i - 1) : ra[j].name # arg_name].cl_value)
    ELSE None

Redelegate_new(delegator, validator, new_validator, amount) ==
    [delegator |-> delegator, validator |-> validator,
     new_validator |-> new_validator, amount |-> amount]

(* Faulty variant: the new validator is not inserted.                      *)
RuntimeArgs_from_NoNewValidator(d) ==
    insert(insert(insert(RuntimeArgs_new,
        "delegator", d.delegator),
        "validator", d.validator),
        "amount", d.amount)

(* impl From<Redelegate> for RuntimeArgs                                   *)
RuntimeArgs_from(d) ==
    insert(insert(insert(insert(RuntimeArgs_new,
        "delegator", d.delegator),
        "validator", d.validator),
        "new_validator", d.new_validator),
        "amount", d.amount)

sample_redelegations ==
    LET amount_min == U512_from(0)
        amount_mid == U512_from(100000000)
        amount_max == U512_MAX
        amounts == <<amount_min, amount_mid, amount_max>>
        delegator == PublicKey_ed25519_from_bytes(Repeat(1, 32))
        validator == PublicKey_ed25519_from_bytes(Repeat(3, 32))
        new_validator == PublicKey_ed25519_from_bytes(Repeat(6, 32))
    IN [i \in 1..Len(amounts) |->
           Redelegate_new(delegator, validator, new_validator, amounts[i])]

(* Sample::new and Sample::add_label (sample.rs).                          *)
Sample_new(label, item, validity) == [label |-> label, item |-> item, valid |-> validity]

add_label(s, label) == [s EXCEPT !.label = s.label \o "__" \o label]

(* commons::prepend_label                                                  *)
prepend_label(s, label) == [s EXCEPT !.label = label \o "__" \o s.label]

(* .map(|s| prepend_label(s, label)) over a vector of samples.             *)
prepend_labels(ss, label) == [i \in 1..Len(ss) |-> prepend_label(ss[i], label)]

(* The kinds of stored-contract call that commons::sample_executables      *)
(* wraps the arguments in.                                                 *)
ExecutableKinds == <<"by-hash", "by-name", "versioned-by-hash", "versioned-by-name">>

(* commons::sample_executables(entry_point, ra, base_label, valid): one    *)
(* sample per kind, each carrying the entry point, the arguments and the   *)
(* validity it was given.                                                  *)
sample_executables(entry_point, ra, base_label, validity) ==
    [k \in 1..Len(ExecutableKinds) |->
        Sample_new(IF base_label = None THEN "type:" \o ExecutableKinds[k]
                   ELSE base_label[1] \o "__type:" \o ExecutableKinds[k],
                   [kind |-> ExecutableKinds[k], entry_point |-> entry_point, args |-> ra],
                   validity)]

(* flat_map: the concatenation of seqs[1], seqs[2], ...                    *)
RECURSIVE Flatten(_)
Flatten(seqs) == IF seqs = <<>> THEN <<>> ELSE Head(seqs) \o Flatten(Tail(seqs))

(* commons::valid(entry_point, rargs): valid samples of every kind for     *)
(* every argument set.                                                     *)
commons_valid(entry_point, rargs) ==
    prepend_labels(
        Flatten([i \in 1..Len(rargs) |-> sample_executables(entry_point, rargs[i], None, TRUE)]),
        entry_point)

(* redelegate::valid                                                       *)
redelegate_valid ==
    LET rs == sample_redelegations
        delegate_rargs == [i \in 1..Len(rs) |-> RuntimeArgs_from(rs[i])]
    IN commons_valid(ENTRY_POINT_NAME, delegate_rargs)

(* The `invalid_args_samples` vector of invalid_redelegation, with the     *)
(* validity bits as written at redelegate.rs:105-115.                      *)
invalid_args_samples ==
    LET delegator == PublicKey_ed25519_from_bytes(Repeat(1, 32))
        old_validator == PublicKey_ed25519_from_bytes(Repeat(3, 32))
        new_validator == PublicKey_ed25519_from_bytes(Repeat(6, 32))
        amount == U512_from(100000000)
        missing_required_amount ==
            insert(insert(insert(RuntimeArgs_new,
                "delegator", delegator),
                "validator", old_validator),
                "new_validator", new_validator)
        missing_required_delegator ==
            insert(insert(insert(RuntimeArgs_new,
                "validator", old_validator),
                "new_validator", new_validator),
                "amount", amount)
        missing_required_validator ==
            insert(insert(insert(RuntimeArgs_new,
                "delegator", delegator),
                "new_validator", new_validator),
                "amount", amount)
        missing_required_new_validator ==
            insert(insert(insert(RuntimeArgs_new,
                "delegator", delegator),
                "validator", old_validator),
                "amount", amount)
        invalid_amount_type ==
            insert(insert(insert(insert(RuntimeArgs_new,
                "validator", old_validator),
                "delegator", delegator),
                "amount", U32_from(100000)),
                "new_validator", new_validator)
    IN << Sample_new("missing_amount", missing_required_amount, TRUE),
          Sample_new("missing_delegator", missing_required_delegator, TRUE),
          Sample_new("missing_validator", missing_required_validator, TRUE),
          Sample_new("missing_new_validator", missing_required_new_validator, FALSE),
          Sample_new("invalid_type_amount", invalid_amount_type, TRUE) >>

(* invalid_redelegation (= redelegate::invalid)                            *)
invalid_redelegation ==
    LET delegator == PublicKey_ed25519_from_bytes(Repeat(1, 32))
        old_validator == PublicKey_ed25519_from_bytes(Repeat(3, 32))
        new_validator == PublicKey_ed25519_from_bytes(Repeat(6, 32))
        amount == U512_from(100000000)
        valid_args ==
            insert(insert(insert(insert(RuntimeArgs_new,
                "delegator", delegator),
                "validator", old_validator),
                "new_validator", new_validator),
                "amount", amount)
        ias == invalid_args_samples
    IN prepend_labels(
           Flatten([i \in 1..Len(ias) |->
                       sample_executables(ENTRY_POINT_NAME, ias[i].item,
                                          Some(ias[i].label), ias[i].valid)])
           \o sample_executables("invalid", valid_args, Some("invalid_entrypoint"), TRUE),
           ENTRY_POINT_NAME)

(* system_payment::valid / invalid                                         *)
system_payment_valid ==
    Sample_new("payment:system",
               [kind |-> "module-bytes", entry_point |-> "",
                args |-> insert(RuntimeArgs_new, "amount", U512_from(1000000000))],
               TRUE)

system_payment_invalid ==
    Sample_new("payment:system-missing-amount",
               [kind |-> "module-bytes", entry_point |-> "", args |-> RuntimeArgs_new],
               FALSE)

(* The random generator: a linear congruential stream.                     *)
RngNext(r) == (r * 75 + 74) % 65537

(* A draw from 0..(n - 1), and the state after it.                         *)
gen_index(r, n) == [value |-> RngNext(r) % n, rng |-> RngNext(r)]

Swap(seq, i, j) == [seq EXCEPT ![i] = seq[j], ![j] = seq[i]]

(* SliceRandom::shuffle: for i in (1..len).rev() { swap(i, gen_index(i+1)) } *)
(* (i is 0-based).  Gives the shuffled vector and the generator state.     *)
RECURSIVE ShuffleFrom(_, _, _)
ShuffleFrom(seq, i, r) ==
    IF i < 1 THEN [seq |-> seq, rng |-> r]
    ELSE LET d == gen_index(r, i + 1)
         IN ShuffleFrom(Swap(seq, i + 1, d.value + 1), i - 1, d.rng)

shuffle(seq, r) == ShuffleFrom(seq, Len(seq) - 1, r)

(* make_dependencies(count)                                                *)
make_dependencies(count) ==
    IF count = 0 THEN <<>>
    ELSE [k \in 1..count |-> Repeat(k - 1, 32)]

(* random_keys(key_count): key i (0-based) is ed25519 for even i.          *)
random_keys(n) ==
    [k \in 1..n |->
        IF (k - 1) % 2 = 0
        THEN SecretKey_from_bytes("ed25519", Repeat(k - 1, 32))
        ELSE SecretKey_from_bytes("secp256k1", Repeat(k - 1, 32))]

(* Deploy::new(timestamp, ttl, gas_price, dependencies, chain_name,        *)
(* payment, session, secret_key, None): the deploy approved by secret_key. *)
Deploy_new(timestamp, ttl, gas_price, dependencies, chain_name, payment, session, key) ==
    [timestamp |-> timestamp, ttl |-> ttl, gas_price |-> gas_price,
     dependencies |-> dependencies, chain_name |-> chain_name,
     payment |-> payment, session |-> session, approvals |-> <<key>>]

(* Deploy::sign(key): one more approval.                                   *)
Deploy_sign(deploy, key) == [deploy EXCEPT !.approvals = Append(deploy.approvals, key)]

(* Faulty variant: the validity of the payment is ignored.                 *)
new_deploy_sample_SessionOnly(session, payment, ttl, dependencies, main_key) ==
    add_label(
        Sample_new(session.label,
                   Deploy_new("2021-05-04T14:20:35.104Z", ttl, 2, dependencies, "mainnet",
                              payment.item, session.item, main_key),
                   session.valid),
        payment.label)

(* make_deploy_sample up to its signing loop (test_data.rs:183-199).       *)
new_deploy_sample(session, payment, ttl, dependencies, main_key) ==
    add_label(
        Sample_new(session.label,
                   Deploy_new("2021-05-04T14:20:35.104Z", ttl, 2, dependencies, "mainnet",
                              payment.item, session.item, main_key),
                   session.valid /\ payment.valid),
        payment.label)

(* The body of make_deploy_sample's signing loop (test_data.rs:203-205).   *)
sign_sample(s, key) == Sample_new(s.label, Deploy_sign(s.item, key), s.valid)


-----------------------------------------------------------------------------
(* redelegate_samples(rng), entered with a generator in any initial state. *)

InitGen ==
    /\ pc = "redelegate_samples"
    /\ rng \in 0..MaxSeed
    /\ valid_samples = <<>>
    /\ invalid_samples = <<>>
    /\ call = 0
    /\ result = <<>>
    /\ session_samples = <<>>
    /\ payment_samples = <<>>
    /\ si = 0
    /\ pi = 0
    /\ ttls = <<>>
    /\ deps_count = <<>>
    /\ key_count = <<>>
    /\ built = <<>>
    /\ sample = [label |-> "", item |-> <<>>, valid |-> FALSE]
    /\ secondary_keys = <<>>
    /\ samples = <<>>
    /\ data = <<>>
    /\ index = 0
    /\ name = ""
    /\ valid = FALSE
    /\ blob = ""
    /\ ledger = <<>>
    /\ mode = "regular"
    /\ pages = <<>>
    /\ element = Element("", "", FALSE)
    /\ pos = 0
    /\ values = <<>>
    /\ curr_value = LedgerValue_default
    /\ output = <<>>
    /\ output_expert = <<>>

(* The head of construct_samples: its parameters and its three vectors.    *)
EnterConstruct(sessions, payments) ==
    /\ session_samples' = sessions
    /\ payment_samples' = payments
    /\ ttls' = <<MIN_TTL, TTL_HOUR, MAX_TTL>>
    /\ deps_count' = <<MIN_DEPS_COUNT, 3, MAX_DEPS_COUNT>>
    /\ key_count' = <<MIN_APPROVALS_COUNT, 3, MAX_APPROVALS_COUNT>>
    /\ built' = <<>>
    /\ si' = 1
    /\ pi' = 1

(* redelegate_samples: the valid samples are built and the first           *)
(* construct_samples call is entered.                                      *)
Redelegate_Begin ==
    /\ pc = "redelegate_samples"
    /\ valid_samples' = redelegate_valid
    /\ EnterConstruct(valid_samples', <<system_payment_valid>>)
    /\ call' = 1
    /\ pc' = "construct"
    /\ UNCHANGED <<rng, invalid_samples, result, sample, secondary_keys>>
    /\ UNCHANGED layout_vars

(* One pass of construct_samples' inner loop up to the signing loop of     *)
(* make_deploy_sample: the random picks, then the deploy signed by the     *)
(* main key.                                                               *)
Construct_Pair ==
    /\ pc = "construct"
    /\ si <= Len(session_samples)
    /\ LET kc == shuffle(key_count, rng)
           keys == shuffle(random_keys(kc.seq[1]), kc.rng)
           dc == shuffle(deps_count, keys.rng)
           dependencies == make_dependencies(dc.seq[1])
           tt == shuffle(ttls, dc.rng)
           ttl == tt.seq[1]
       IN /\ key_count' = kc.seq
          /\ deps_count' = dc.seq
          /\ ttls' = tt.seq
          /\ rng' = tt.rng
          /\ sample' = new_deploy_sample(session_samples[si], payment_samples[pi],
                                         ttl, dependencies, keys.seq[1])
          /\ secondary_keys' = Tail(keys.seq)
    /\ pc' = "sign"
    /\ UNCHANGED <<valid_samples, invalid_samples, call, result, session_samples,
                   payment_samples, si, pi, built>>
    /\ UNCHANGED layout_vars

(* One iteration of `for key in secondary_keys`.                           *)
Sign_Key ==
    /\ pc = "sign"
    /\ secondary_keys # <<>>
    /\ sample' = sign_sample(sample, Head(secondary_keys))
    /\ secondary_keys' = Tail(secondary_keys)
    /\ UNCHANGED <<pc, rng, valid_samples, invalid_samples, call, result,
                   session_samples, payment_samples, si, pi, ttls, deps_count,
                   key_count, built>>
    /\ UNCHANGED layout_vars

(* make_deploy_sample returns; construct_samples pushes the sample and     *)
(* moves to the next payment, or to the next session.                      *)
Push_Sample ==
    /\ pc = "sign"
    /\ secondary_keys = <<>>
    /\ built' = Append(built, sample)
    /\ IF pi < Len(payment_samples)
       THEN pi' = pi + 1 /\ si' = si
       ELSE pi' = 1 /\ si' = si + 1
    /\ pc' = "construct"
    /\ UNCHANGED <<rng, valid_samples, invalid_samples, call, result,
                   session_samples, payment_samples, ttls, deps_count, key_count,
                   sample, secondary_keys>>
    /\ UNCHANGED layout_vars

(* The first construct_samples call returns; the invalid samples are built *)
(* and the second call is entered.                                         *)
Redelegate_Invalid ==
    /\ pc = "construct"
    /\ si > Len(session_samples)
    /\ call = 1
    /\ result' = built
    /\ invalid_samples' = invalid_redelegation
    /\ EnterConstruct(invalid_samples', <<system_payment_invalid, system_payment_valid>>)
    /\ call' = 2
    /\ UNCHANGED <<pc, rng, valid_samples, sample, secondary_keys>>
    /\ UNCHANGED layout_vars

(* The second call returns; redelegate_samples returns `samples`.          *)
Redelegate_Return ==
    /\ pc = "construct"
    /\ si > Len(session_samples)
    /\ call = 2
    /\ result' = result \o built
    /\ pc' = "returned"
    /\ UNCHANGED <<rng, valid_samples, invalid_samples, call, session_samples,
                   payment_samples, si, pi, ttls, deps_count, key_count, built,
                   sample, secondary_keys>>
    /\ UNCHANGED layout_vars

NextGen ==
    \/ Redelegate_Begin
    \/ Construct_Pair
    \/ Sign_Key
    \/ Push_Sample
    \/ Redelegate_Invalid
    \/ Redelegate_Return

SpecGen == InitGen /\ [][NextGen]_vars

-----------------------------------------------------------------------------
(* Vocabulary of the properties: the layout stated in closed form, without *)
(* the character loop.                                                     *)

UnitCapacity == LEDGER_VIEW_TOP_ROW_CHAR_COUNT + LEDGER_VIEW_BOTTOM_CHAR_COUNT

Min(a, b) == IF a < b THEN a ELSE b

(* ceil(L / 34) units, and one unit for the empty value.                   *)
UnitCount(v) ==
    IF Len(v) = 0 THEN 1 ELSE (Len(v) + UnitCapacity - 1) \div UnitCapacity

(* The text of the i-th unit of v.                                         *)
UnitText(v, i) ==
    SubSeq(v, UnitCapacity * (i - 1) + 1, Min(UnitCapacity * i, Len(v)))

(* The unprefixed text of the j-th line of element e.                      *)
LineText(e, j) ==
    IF UnitCount(e.value) = 1
    THEN e.name \o " : " \o e.value
    ELSE e.name \o " [" \o DecStr(j) \o "/" \o DecStr(UnitCount(e.value)) \o "] : "
         \o UnitText(e.value, j)

(* The elements a mode shows, in their original order.                     *)
Survivors(els, expertMode) == SelectSeq(els, LAMBDA e : (~e.expert) \/ expertMode)

(* Number of lines of the first k elements of S.                           *)
RECURSIVE LinesBefore(_, _)
LinesBefore(S, k) ==
    IF k = 0 THEN 0 ELSE LinesBefore(S, k - 1) + UnitCount(S[k].value)

RECURSIVE ConcatUnits(_)
ConcatUnits(units) ==
    IF units = <<>> THEN ""
    ELSE Head(units).top \o Head(units).bottom \o ConcatUnits(Tail(units))

HasPrefix(s, p) == Len(s) >= Len(p) /\ SubSeq(s, 1, Len(p)) = p

HasSuffix(s, p) == Len(s) >= Len(p) /\ SubSeq(s, Len(s) - Len(p) + 1, Len(s)) = p

(* The assembled views the state holds: <<element list, mode, lines>>.     *)
Assembled ==
    {<<samples[k].deploy.elements, FALSE, data[k].output>> : k \in 1..Len(data)}
    \cup {<<samples[k].deploy.elements, TRUE, data[k].output_expert>> : k \in 1..Len(data)}
    \cup (IF mode = "expert" THEN {<<ledger, FALSE, output>>} ELSE {})

(* The whole assembly of an element list in closed form.                   *)
RECURSIVE AssembleFrom(_, _)
AssembleFrom(S, k) ==
    IF k > Len(S) THEN <<>>
    ELSE [j \in 1..UnitCount(S[k].value) |-> DecStr(k - 1) \o " | " \o LineText(S[k], j)]
         \o AssembleFrom(S, k + 1)

Assemble(els, expertMode) == AssembleFrom(Survivors(els, expertMode), 1)

-----------------------------------------------------------------------------
(* C1: Round trip. For every page that from_element has built, the         *)
(* concatenation of top+bottom of its units, in unit order, is exactly the *)
(* value of the element it was built from.                                 *)
C1_RoundTrip ==
    \A k \in 1..Len(pages) : ConcatUnits(pages[k].values) = ledger[k].value

(* A page of three units is built: two new units were started.             *)
C1_Witness ==
    \E k \in 1..Len(pages) :
        /\ Len(pages[k].values) = 3
        /\ Len(ledger[k].value) = 2 * UnitCapacity + 1

(* C2: Capacity. In every built page each top row and each bottom row has  *)
(* at most 17 characters, and every unit but the last has 17 + 17.         *)
C2_Capacity ==
    \A k \in 1..Len(pages) :
        \A i \in 1..Len(pages[k].values) :
            LET u == pages[k].values[i]
            IN /\ Len(u.top) <= 17
               /\ Len(u.bottom) <= 17
               /\ i < Len(pages[k].values) => Len(u.top) = 17 /\ Len(u.bottom) = 17

(* A page with a full unit followed by a last unit under capacity.         *)
C2_Witness ==
    \E k \in 1..Len(pages) :
        LET n == Len(pages[k].values)
        IN /\ n >= 2
           /\ Len(pages[k].values[1].top) = 17
           /\ Len(pages[k].values[1].bottom) = 17
           /\ Len(pages[k].values[n].top) < 17

(* C3: Unit count. A built page has ceil(L / 34) units for a value of      *)
(* length L > 0 and one unit for L = 0; it is never empty, and a value of  *)
(* a positive multiple of 34 characters has no trailing empty unit.        *)
C3_UnitCount ==
    \A k \in 1..Len(pages) :
        LET L == Len(ledger[k].value)
            n == Len(pages[k].values)
        IN /\ n >= 1
           /\ L = 0 => n = 1
           /\ L > 0 => n = (L + 33) \div 34
           /\ (L > 0 /\ L % 34 = 0) =>
                  /\ n = L \div 34
                  /\ pages[k].values[n] # LedgerValue_default

(* A value of exactly 68 characters has been chunked into a page.          *)
C3_Witness ==
    \E k \in 1..Len(pages) :
        Len(ledger[k].value) = 68 /\ Len(pages[k].values) = 2

(* C4: Name limit. from_element aborts on a name of more than 11           *)
(* characters and builds no page for it; a name of at most 11 characters   *)
(* never aborts it, and the page carries the element's name and expert     *)
(* flag unchanged.                                                         *)
C4_NameLimit ==
    /\ pc = "panicked" =>
          /\ Len(element.name) > 11
          /\ Len(pages) < Len(ledger)
          /\ ledger[Len(pages) + 1] = element
    /\ pc = "chars" => Len(element.name) <= 11
    /\ \A k \in 1..Len(pages) :
          /\ Len(ledger[k].name) <= 11
          /\ pages[k].name = ledger[k].name
          /\ pages[k].expert = ledger[k].expert

(* A page with an 11-character name is built and the next element, with a  *)
(* 12-character name, has aborted.                                         *)
C4_Witness ==
    /\ pc = "panicked"
    /\ Len(element.name) = 12
    /\ \E k \in 1..Len(pages) : Len(pages[k].name) = 11 /\ pages[k].expert

(* C5: Filtering. Every assembled view consists of one block of lines per  *)
(* element that its mode shows (Regular: the elements with expert = false; *)
(* Expert: every element), blocks in the original element order, the       *)
(* lines of a block being the lines of that element: no line comes from a  *)
(* filtered-out element.                                                   *)
C5_Filtering ==
    \A a \in Assembled :
        LET S == Survivors(a[1], a[2])
            lines == a[3]
        IN /\ a[2] => S = a[1]
           /\ ~a[2] => \A k \in 1..Len(S) : ~S[k].expert
           /\ Len(lines) = LinesBefore(S, Len(S))
           /\ \A k \in 1..Len(S) :
                  \A j \in 1..UnitCount(S[k].value) :
                      HasSuffix(lines[LinesBefore(S, k - 1) + j], " | " \o LineText(S[k], j))

(* A record of a three-element list with an expert element between two     *)
(* regular ones.                                                           *)
C5_Witness ==
    \E k \in 1..Len(data) :
        LET els == samples[k].deploy.elements
        IN /\ Len(els) = 3
           /\ ~els[1].expert /\ els[2].expert /\ ~els[3].expert
           /\ els[1] # els[3]
           /\ Len(data[k].output) < Len(data[k].output_expert)

(* C6: Index stability. In every assembled view all lines of the k-th      *)
(* surviving element (k = 0, 1, ...) start with "{k} | ": the counter      *)
(* counts surviving elements, not filtered-out elements and not lines.     *)
C6_IndexStability ==
    \A a \in Assembled :
        LET S == Survivors(a[1], a[2])
            lines == a[3]
        IN \A k \in 1..Len(S) :
               \A j \in 1..UnitCount(S[k].value) :
                   /\ LinesBefore(S, k - 1) + j \in DOMAIN lines
                   /\ HasPrefix(lines[LinesBefore(S, k - 1) + j],
                                DecStr(k - 1) \o " | " \o S[k].name)

(* A Regular view in which a multi-line element precedes another element   *)
(* and an expert element was filtered out before the last one.             *)
C6_Witness ==
    \E k \in 1..Len(data) :
        LET els == samples[k].deploy.elements
        IN /\ Len(els) = 3
           /\ ~els[1].expert /\ UnitCount(els[1].value) = 2
           /\ els[2].expert
           /\ ~els[3].expert
           /\ Len(data[k].output) = 3

(* Number of units of the first k pages of ps.                             *)
RECURSIVE UnitsBefore(_, _)
UnitsBefore(ps, k) ==
    IF k = 0 THEN 0 ELSE UnitsBefore(ps, k - 1) + Len(ps[k].values)

(* C7: Page rendering. In the Expert view just assembled from `pages`, a   *)
(* page of one unit gives exactly one line "{name} : {top}{bottom}" with   *)
(* no [i/n] tag, and a page of n > 1 units gives exactly n lines, the i-th *)
(* being "{name} [{i}/{n}] : {top_i}{bottom_i}" (after the index prefix).  *)
C7_PageFormat ==
    (pc \in {"main", "done"} /\ Len(data) > 0) =>
        LET lines == data[Len(data)].output_expert
        IN /\ Len(lines) = UnitsBefore(pages, Len(pages))
           /\ \A k \in 1..Len(pages) :
                  LET n == Len(pages[k].values)
                      off == UnitsBefore(pages, k - 1)
                  IN IF n = 1
                     THEN HasSuffix(lines[off + 1],
                              " | " \o pages[k].name \o " : "
                                    \o pages[k].values[1].top \o pages[k].values[1].bottom)
                     ELSE \A i \in 1..n :
                              HasSuffix(lines[off + i],
                                  " | " \o pages[k].name \o " [" \o DecStr(i) \o "/"
                                        \o DecStr(n) \o "] : "
                                        \o pages[k].values[i].top \o pages[k].values[i].bottom)

(* An Expert view holding a one-unit page and a three-unit page.           *)
C7_Witness ==
    /\ pc \in {"main", "done"}
    /\ Len(data) > 0
    /\ \E k \in 1..Len(pages) : Len(pages[k].values) = 1
    /\ \E k \in 1..Len(pages) : Len(pages[k].values) = 3
    /\ Len(data[Len(data)].output_expert) >= 4

(* The value of the end-to-end example as written: 34 characters.          *)
ExampleValue == "0101010101010101010101010101010101"

(* C8, as stated: the sole element {To, ExampleValue, regular} yields the  *)
(* two lines "0 | To [1/2] : <34 chars>" and "0 | To [2/2] : 01".          *)
C8_AsStated ==
    \A k \in 1..Len(data) :
        samples[k].deploy.elements = <<Element("To", ExampleValue, FALSE)>> =>
            data[k].output = << "0 | To [1/2] : 0101010101010101010101010101010101",
                                "0 | To [2/2] : 01" >>

(* C8, amended: the value as written has 34 characters, fills exactly one  *)
(* unit and yields the single line "0 | To : <34 chars>"; the 36-character *)
(* value (the same pattern followed by "01") is what yields the two lines  *)
(* "0 | To [1/2] : <first 34 chars>" and "0 | To [2/2] : 01".              *)
C8_EndToEnd ==
    \A k \in 1..Len(data) :
        /\ samples[k].deploy.elements = <<Element("To", ExampleValue, FALSE)>> =>
               data[k].output = << "0 | To : 0101010101010101010101010101010101" >>
        /\ samples[k].deploy.elements = <<Element("To", ExampleValue \o "01", FALSE)>> =>
               data[k].output = << "0 | To [1/2] : 0101010101010101010101010101010101",
                                   "0 | To [2/2] : 01" >>

(* The record of the example element has been built.                       *)
C8_Witness ==
    \E k \in 1..Len(data) :
        /\ samples[k].deploy.elements = <<Element("To", ExampleValue, FALSE)>>
        /\ Len(data[k].output) = 1

(* C9: Totality. A deploy whose element names all have at most 11          *)
(* characters never aborts; an empty element list gives an empty output in *)
(* both modes; a shown element with an empty value gives exactly the one   *)
(* line "{k} | {name} : "; an all-expert list gives an empty Regular       *)
(* output; {Id, 999, expert} alone gives [] and ["0 | Id : 999"].          *)
C9_Totality ==
    /\ (\A i \in 1..Len(ledger) : Len(ledger[i].name) <= 11) => pc # "panicked"
    /\ \A a \in Assembled :
          LET S == Survivors(a[1], a[2])
          IN /\ a[1] = <<>> => a[3] = <<>>
             /\ (~a[2] /\ \A i \in 1..Len(a[1]) : a[1][i].expert) => a[3] = <<>>
             /\ \A i \in 1..Len(S) :
                    S[i].value = "" =>
                        /\ LinesBefore(S, i) = LinesBefore(S, i - 1) + 1
                        /\ LinesBefore(S, i) \in DOMAIN a[3]
                        /\ a[3][LinesBefore(S, i)] = DecStr(i - 1) \o " | " \o S[i].name \o " : "
    /\ \A k \in 1..Len(data) :
          samples[k].deploy.elements = <<Element("Id", "999", TRUE)>> =>
              /\ data[k].output = <<>>
              /\ data[k].output_expert = << "0 | Id : 999" >>

(* The batch is complete and holds the records of the {Id, 999, expert}    *)
(* deploy and of the deploy without elements.                              *)
C9_Witness ==
    /\ pc = "done"
    /\ \E k \in 1..Len(data) : samples[k].deploy.elements = <<Element("Id", "999", TRUE)>>
    /\ \E k \in 1..Len(data) :
          samples[k].deploy.elements = <<>> /\ data[k].output_expert = <<>>

(* C10: Record Builder. The k-th record of the batch (k = 0, 1, ...) has   *)
(* index k, the label and the validity flag of the k-th sample in both     *)
(* valid_regular and valid_expert, testnet = true, and the Regular and the *)
(* Expert assembly of that sample's element list.                          *)
C10_RecordBuilder ==
    \A k \in 1..Len(data) :
        /\ data[k].index = k - 1
        /\ data[k].name = samples[k].label
        /\ data[k].valid_regular = samples[k].valid
        /\ data[k].valid_expert = samples[k].valid
        /\ data[k].testnet = TRUE
        /\ data[k].output = Assemble(samples[k].deploy.elements, FALSE)
        /\ data[k].output_expert = Assemble(samples[k].deploy.elements, TRUE)

(* A printed batch of two records, the second of an invalid sample.        *)
C10_Witness ==
    /\ pc = "done"
    /\ Len(data) = 2
    /\ data[2].index = 1
    /\ ~data[2].valid_expert
    /\ data[1].valid_regular
    /\ data[2].output_expert # <<>>

(* C12, as stated: a page is built, and the name check applied, only for   *)
(* the elements that the filter of the running mode retains; in the        *)
(* Regular assembly no expert element is page-built or makes it abort.     *)
C12_AsStated ==
    (pc \in {"chars", "panicked"} /\ mode = "regular") => ~element.expert

(* C12, amended: the pages of all elements are built before the filter is  *)
(* applied to the built pages. A view exists only of an element list whose *)
(* names, of expert elements too, all passed the name check; an abort      *)
(* always happens while the pages of the first (Regular) view are built,   *)
(* on the first over-long name of the list whatever its expert flag.       *)
C12_BuildBeforeFilter ==
    /\ \A a \in Assembled : \A i \in 1..Len(a[1]) : Len(a[1][i].name) <= 11
    /\ pc = "panicked" =>
          /\ mode = "regular"
          /\ element = ledger[Len(pages) + 1]
          /\ \A i \in 1..Len(pages) : Len(ledger[i].name) <= 11
    /\ pc = "from_ledger" => \A i \in 1..Len(pages) : pages[i].name = ledger[i].name

(* The Regular assembly has aborted on an expert-only element, after the   *)
(* page of another expert-only element was built.                          *)
C12_Witness ==
    /\ pc = "panicked"
    /\ mode = "regular"
    /\ element.expert
    /\ \E i \in 1..Len(pages) : pages[i].expert

IsFull(u) ==
    /\ Len(u.top) = LEDGER_VIEW_TOP_ROW_CHAR_COUNT
    /\ Len(u.bottom) = LEDGER_VIEW_BOTTOM_CHAR_COUNT

(* State part of C13, at every step of the character loop.                 *)
C13_LoopInvariant ==
    pc = "chars" =>
        /\ curr_value.bottom # "" => Len(curr_value.top) = 17
        /\ \A i \in 1..Len(values) : IsFull(values[i])
        /\ pos < Len(element.value) =>
              LET r == add_char(curr_value, CharAt(element.value, pos + 1))
              IN /\ r.added <=> ~(Len(curr_value.top) = 17 /\ Len(curr_value.bottom) = 17)
                 /\ ~r.added => r.value = curr_value

(* Step part of C13: what one loop iteration or the final push does to     *)
(* the pushed units.                                                       *)
C13_LoopStep ==
    pc = "chars" /\ pc' \in {"chars", "from_ledger"} =>
        /\ Len(values') >= Len(values)
        /\ SubSeq(values', 1, Len(values)) = values
        /\ Len(values') > Len(values) =>
              /\ values' = Append(values, curr_value)
              /\ pc' = "chars" => IsFull(curr_value)
              /\ pc' = "from_ledger" => pos = Len(element.value)

(* C13: Fill order. At every step of the loop the bottom row of the        *)
(* current unit is non-empty only if its top row holds 17 characters;      *)
(* add_char returns false exactly when both rows hold 17 characters and    *)
(* then leaves the unit unchanged; a unit is pushed only when it is full,  *)
(* apart from the final push after the input is exhausted; and pushed      *)
(* units are never modified or reordered.                                  *)
C13_FillOrder == [](C13_LoopInvariant) /\ [][C13_LoopStep]_vars

(* The loop has pushed a full unit and is filling the bottom row of the    *)
(* second.                                                                 *)
C13_Witness ==
    /\ pc = "chars"
    /\ Len(values) = 1
    /\ Len(curr_value.top) = 17
    /\ curr_value.bottom # ""

RequiredArgs == {"amount", "delegator", "validator", "new_validator"}

HasRequiredArgs(args) == \A a \in RequiredArgs : is_some(get(args, a))

(* C11: every sample that redelegate::valid() returned carries runtime     *)
(* arguments with all of "amount", "delegator", "validator" and            *)
(* "new_validator", and the samples cover the amounts 0, 100000000 and     *)
(* U512::MAX.                                                              *)
C11_ValidArgs ==
    /\ \A k \in 1..Len(valid_samples) : HasRequiredArgs(valid_samples[k].item.args)
    /\ call >= 1 =>
          \A amount \in {U512_from(0), U512_from(100000000), U512_MAX} :
              \E k \in 1..Len(valid_samples) :
                  /\ get(valid_samples[k].item.args, "amount") = Some(amount)
                  /\ HasRequiredArgs(valid_samples[k].item.args)

(* redelegate::valid() has returned its samples, a deploy was built from   *)
(* the one with the largest amount.                                        *)
C11_Witness ==
    /\ call = 1
    /\ Len(valid_samples) >= 3
    /\ \E k \in 1..Len(built) :
          get(built[k].item.session.args, "amount") = Some(U512_MAX)

InvalidLabels ==
    {"missing_amount", "missing_delegator", "missing_validator",
     "missing_new_validator", "invalid_type_amount", "invalid_entrypoint"}

(* C14, as stated: every sample that invalid_redelegation returned (the    *)
(* five argument sets with a missing or wrongly typed argument, and the    *)
(* valid arguments under an invalid entry point) has validity true.        *)
C14_AsStated ==
    \A k \in 1..Len(invalid_samples) : invalid_samples[k].valid = TRUE

(* Position of the pair (session, payment) that built[k] was made from.    *)
SessionOf(k) == ((k - 1) \div Len(payment_samples)) + 1

PaymentOf(k) == ((k - 1) % Len(payment_samples)) + 1

(* State part of C15.                                                      *)
C15_Validity ==
    /\ pc = "sign" =>
          sample.valid = (session_samples[si].valid /\ payment_samples[pi].valid)
    /\ pc \in {"construct", "sign"} =>
          /\ \A k \in 1..Len(built) :
                built[k].valid = (session_samples[SessionOf(k)].valid
                                  /\ payment_samples[PaymentOf(k)].valid)
          /\ Len(built) = (si - 1) * Len(payment_samples) + (pi - 1)
    /\ (pc = "construct" /\ si > Len(session_samples)) =>
          Len(built) = Len(session_samples) * Len(payment_samples)

(* Step part of C15: signing with one more secondary key.                  *)
C15_SignStep ==
    (pc = "sign" /\ pc' = "sign") =>
        /\ sample'.label = sample.label
        /\ sample'.valid = sample.valid
        /\ Len(sample'.item.approvals) = Len(sample.item.approvals) + 1

(* C15: make_deploy_sample gives a sample that is valid if and only if     *)
(* both the session and the payment sample are valid; signing with the     *)
(* secondary keys leaves label and validity unchanged; so each of the      *)
(* |sessions| x |payments| samples of construct_samples has validity =     *)
(* session validity AND payment validity, whatever the generator picks.    *)
C15_SampleValidity == [](C15_Validity) /\ [][C15_SignStep]_vars

(* A sample of a valid session and an invalid payment has been signed by   *)
(* the main key and nine secondary keys.                                   *)
C15_Witness ==
    /\ pc = "sign"
    /\ secondary_keys = <<>>
    /\ Len(sample.item.approvals) = MAX_APPROVALS_COUNT
    /\ session_samples[si].valid
    /\ ~payment_samples[pi].valid
    /\ ~sample.valid

====
